---- MODULE Spec2Model ----
(***************************************************************************)
(* Model of the podcast-shorts pipeline: the LangGraph stage graph         *)
(* (graph/builder.py), its quality-gated routers (graph/edges.py), the     *)
(* stage and gate nodes (nodes/*.py) and the FastAPI front door that       *)
(* starts, resumes and observes a run (api/routes.py).                     *)
(*                                                                         *)
(* One run (one thread_id) is modelled.  `ckpt` is the latest checkpoint   *)
(* of the run: the pipeline state values together with `next`, the node    *)
(* the graph will execute next (StateSnapshot.next).  A dispatch cycle is  *)
(* one graph invocation (ainvoke / astream_events): it loads the           *)
(* checkpoint into a working copy when it starts, executes one node per    *)
(* step on that copy and saves the copy as the new checkpoint after each   *)
(* step.  The front door takes no lock, so several cycles may be in        *)
(* flight for the run.  `executed` is a history variable, kept by the     *)
(* specifications SpecCounted and SpecCountedSequential only: how many     *)
(* times each stage node has executed in the run (for the scriptwriter:    *)
(* since the review gate was last resumed), counted up to one past the     *)
(* retry budget.  `fails` is a history variable kept by the same           *)
(* specifications and by SpecRevision: the number of consecutive failing   *)
(* assessments each stage has produced in the run, whichever invocation    *)
(* executed the stage, counted up to one past the retry budget.            *)
(***************************************************************************)
EXTENDS Integers, FiniteSets, Sequences, Bags, TLC

VARIABLES ckpt, cyc, accepted, last, extras, executed, fails

vars == <<ckpt, cyc, accepted, last, extras, executed, fails>>

(***************************************************************************)
(* Program constants and bounds                                            *)
(***************************************************************************)
\* settings.max_retries
MaxRetries == 2
\* settings.quality_threshold (0.7), in tenths
QualityThreshold == 7

\* number of unscheduled events in a behaviour: calls of the stream endpoint,
\* second resumes of one suspension and failures of the checkpoint store
MaxExtra == 1
\* cap on a stage's attempt counter: no stage attempt starts beyond it
MaxAttempts == 2
\* the same cap where the draft stage is exercised on its own with a larger
\* retry budget
MaxDrafts == 3

\* boundary tolerance of the caption composer (1.0 s), in milliseconds
Tolerance == 1000
\* longest list of audio segments and longest caption stream the composer
\* is applied to
MaxSegments == 3
MaxCaptions == 2
\* fewest scenes of a script (ScriptGenerationResult.scenes, min_length)
MinScenes == 5
\* largest number of scenes of a script handed to the media stage
MaxScenes == 10

END == "__end__"

Stages == {"trend_researcher", "scriptwriter", "media_producer", "auto_editor"}
Gates == {"topic_selection_gate", "speaker_selection_gate", "human_review_gate",
          "audio_choice_gate", "hook_prompt_gate"}
Nodes == Stages \cup Gates

Feedbacks == {"none", "shorten body"}

\* what a stage's collaborators deliver in one attempt: an exception that
\* reaches the stage's own except branch, or the score (in tenths) of the
\* assessment the stage computes.  A collaborator call that throws and is
\* caught before the stage's boundary (by the search tools of research, around
\* the news search of draft, by the gather over the scenes of media, around
\* the hook video call of assemble) leaves the stage going on with what it
\* has: an outcome that does not raise
Outcomes == {[raises |-> TRUE, score |-> 0],
             [raises |-> FALSE, score |-> 6],
             [raises |-> FALSE, score |-> 7]}

NoQuality == [present |-> FALSE, node_name |-> "none", passed |-> FALSE,
              score |-> 0, attempt |-> 0]

\* resume payloads; a key that the payload does not carry is "missing"
NoPayload == [approved |-> "missing", feedback |-> "none",
              audio_source |-> "missing", audio_files |-> "none"]
\* ReviewSubmitRequest: approved with the optional feedback text
ReviewPayloads == {[NoPayload EXCEPT !.approved = a, !.feedback = f] :
                      a \in {"true", "false"}, f \in Feedbacks}
\* AudioChoiceRequest: audio_source with the optional scene-id to file mapping
\* (an empty mapping is sent on as no mapping)
AudioPayloads == {[NoPayload EXCEPT !.audio_source = a, !.audio_files = f] :
                     a \in {"tts", "manual"}, f \in {"none", "files"}}

(***************************************************************************)
(* Pipeline state: graph/state.py PipelineState, initial_state of          *)
(* _run_pipeline.  `fb_given` is a history field: the feedback text of a    *)
(* review decision that no draft attempt has read yet.                     *)
(***************************************************************************)
initial_state ==
    [next |-> END,
     trend_data |-> "none", script_data |-> "none", media_assets |-> "none",
     editor_output |-> "none",
     quality |-> NoQuality,
     retry_counts |-> [s \in Stages |-> 0],
     human_approved |-> "none", human_feedback |-> "none",
     topic_selected |-> "none",
     topic_selection_approved |-> "none", speaker_selection_approved |-> "none",
     audio_source |-> "none", audio_choice_approved |-> "none",
     audio_files |-> "none", hook_prompt_approved |-> "none",
     error |-> "none",
     fb_given |-> "none"]

(***************************************************************************)
(* Faulty variants of definitions below.  Each property that holds of the  *)
(* pipeline is violated when the definition it depends on is replaced by   *)
(* its variant.                                                            *)
(***************************************************************************)
\* retry budget off by one: a retry while the counter equals max_retries
_should_retry_inclusive(state, node_name) ==
    IF (~state.quality.present) \/ state.quality.passed
    THEN FALSE
    ELSE state.retry_counts[node_name] <= MaxRetries

\* research is never attempted again
route_after_trend_once(state) ==
    IF (~state.quality.present) \/ state.quality.passed
    THEN "topic_selection_gate"
    ELSE END

\* the review gate drops the reviewer's feedback
human_review_gate_keep(state, payload) ==
    [state EXCEPT
       !.human_approved = IF payload.approved = "missing" THEN "false"
                          ELSE payload.approved]

\* the hook gate also clears the last assessment
hook_prompt_gate_clearing(state, payload) ==
    [state EXCEPT !.hook_prompt_approved = "true", !.quality = NoQuality]

\* every gate is reported pending whatever the checkpoint holds
next_nodes_any(state) == Gates

\* the review gate's decision is ignored: the run always goes on to the
\* audio-choice gate
route_after_review_always(state) == "audio_choice_gate"

\* research rebuilds the counter map with its own entry only
trend_researcher_reset(state, o) ==
    LET attempt == state.retry_counts["trend_researcher"] + 1
    IN [state EXCEPT
          !.trend_data = IF o.raises THEN "empty" ELSE "ok",
          !.quality = [present |-> TRUE, node_name |-> "trend_researcher",
                       passed |-> (~o.raises /\ o.score >= QualityThreshold),
                       score |-> IF o.raises THEN 0 ELSE o.score,
                       attempt |-> attempt],
          !.retry_counts = [s \in Stages |->
                               IF s = "trend_researcher" THEN attempt ELSE 0]]

\* a stage that crashes leaves the assessment out of its update
Assessment_omitted(name, o, attempt) ==
    IF o.raises
    THEN NoQuality
    ELSE [present |-> TRUE, node_name |-> name,
          passed |-> (o.score >= QualityThreshold),
          score |-> o.score, attempt |-> attempt]

\* the error is recorded as the run's last step: the pending next node is
\* dropped with it
_set_error_state_ending(state, error_msg) ==
    [state EXCEPT !.error = error_msg, !.next = END]

(***************************************************************************)
(* graph/edges.py                                                          *)
(***************************************************************************)
_should_retry(state, node_name) ==
    IF (~state.quality.present) \/ state.quality.passed
    THEN FALSE
    ELSE state.retry_counts[node_name] < MaxRetries

route_after_trend(state) ==
    IF (~state.quality.present) \/ state.quality.passed
    THEN "topic_selection_gate"
    ELSE IF _should_retry(state, "trend_researcher")
         THEN "trend_researcher"
         ELSE END

route_after_script(state) ==
    IF (~state.quality.present) \/ state.quality.passed
    THEN "human_review_gate"
    ELSE IF _should_retry(state, "scriptwriter")
         THEN "scriptwriter"
         ELSE END

route_after_review(state) ==
    IF state.human_approved = "true"
    THEN "audio_choice_gate"
    ELSE "scriptwriter"

route_after_media(state) ==
    IF (~state.quality.present) \/ state.quality.passed
    THEN "hook_prompt_gate"
    ELSE IF _should_retry(state, "media_producer")
         THEN "media_producer"
         ELSE END

route_after_editor(state) ==
    IF (~state.quality.present) \/ state.quality.passed
    THEN "upload_results"
    ELSE IF _should_retry(state, "auto_editor")
         THEN "auto_editor"
         ELSE "upload_results"

(***************************************************************************)
(* graph/builder.py: the destinations each node declares, and the          *)
(* resolution of a router's result against them.  A result that is not a   *)
(* key of the path map raises KeyError out of the graph invocation.        *)
(***************************************************************************)
path_map(node) ==
    CASE node = "trend_researcher" -> {"topic_selection_gate", "trend_researcher", END}
      [] node = "topic_selection_gate" -> {"speaker_selection_gate"}
      [] node = "speaker_selection_gate" -> {"scriptwriter"}
      [] node = "scriptwriter" -> {"human_review_gate", "scriptwriter", END}
      [] node = "human_review_gate" -> {"audio_choice_gate", "scriptwriter"}
      [] node = "audio_choice_gate" -> {"media_producer"}
      [] node = "media_producer" -> {"hook_prompt_gate", "media_producer", END}
      [] node = "hook_prompt_gate" -> {"auto_editor"}
      [] node = "auto_editor" -> {"auto_editor", END}

router(node, state) ==
    CASE node = "trend_researcher" -> route_after_trend(state)
      [] node = "topic_selection_gate" -> "speaker_selection_gate"
      [] node = "speaker_selection_gate" -> "scriptwriter"
      [] node = "scriptwriter" -> route_after_script(state)
      [] node = "human_review_gate" -> route_after_review(state)
      [] node = "audio_choice_gate" -> "media_producer"
      [] node = "media_producer" -> route_after_media(state)
      [] node = "hook_prompt_gate" -> "auto_editor"
      [] node = "auto_editor" -> route_after_editor(state)

build_graph(node, state) ==
    IF router(node, state) \in path_map(node)
    THEN router(node, state)
    ELSE "KeyError"

(***************************************************************************)
(* Stage nodes (nodes/*.py).  Each returns the state with its update       *)
(* merged.                                                                 *)
(***************************************************************************)
Assessment(name, o, attempt) ==
    IF o.raises
    THEN [present |-> TRUE, node_name |-> name, passed |-> FALSE,
          score |-> 0, attempt |-> attempt]
    ELSE [present |-> TRUE, node_name |-> name,
          passed |-> (o.score >= QualityThreshold),
          score |-> o.score, attempt |-> attempt]

\* the run's consecutive failing assessments of each stage after `name` has
\* produced an assessment
Fails(name, passed) ==
    [fails EXCEPT ![name] = IF passed THEN 0
                            ELSE IF @ > MaxRetries THEN @ ELSE @ + 1]

trend_researcher(state, o) ==
    LET attempt == state.retry_counts["trend_researcher"] + 1
        q == Assessment("trend_researcher", o, attempt)
    IN [state EXCEPT
          !.trend_data = IF o.raises THEN "empty" ELSE "ok",
          !.quality = q,
          !.retry_counts = [@ EXCEPT !["trend_researcher"] = attempt]]

scriptwriter(state, o) ==
    LET attempt == state.retry_counts["scriptwriter"] + 1
        q == Assessment("scriptwriter", o, attempt)
    IN [state EXCEPT
          !.script_data = IF o.raises THEN "empty" ELSE "ok",
          !.quality = q,
          !.retry_counts = [@ EXCEPT !["scriptwriter"] = attempt],
          !.human_approved = "none",
          !.human_feedback = "none"]

media_producer(state, o) ==
    LET attempt == state.retry_counts["media_producer"] + 1
        \* no scenes in script_data raises inside the try block, and so does
        \* manual mode without the audio_files mapping (every scene fails)
        oo == IF state.script_data = "ok"
                 /\ ~(state.audio_source = "manual" /\ state.audio_files = "none")
              THEN o ELSE [raises |-> TRUE, score |-> 0]
        q == Assessment("media_producer", oo, attempt)
    IN [state EXCEPT
          !.media_assets = IF oo.raises THEN "empty" ELSE "ok",
          !.quality = q,
          !.retry_counts = [@ EXCEPT !["media_producer"] = attempt]]

auto_editor(state, o) ==
    LET attempt == state.retry_counts["auto_editor"] + 1
        \* no audio assets from media_producer raises inside the try block, and
        \* so does the banner text (len of None) when trend_data holds no
        \* selected topic and topic_selected is still None
        oo == IF /\ state.media_assets = "ok"
                 /\ (state.trend_data = "ok" \/ state.topic_selected # "none")
              THEN o ELSE [raises |-> TRUE, score |-> 0]
        q == Assessment("auto_editor", oo, attempt)
    IN [state EXCEPT
          !.editor_output = IF oo.raises THEN "empty" ELSE "ok",
          !.quality = q,
          !.retry_counts = [@ EXCEPT !["auto_editor"] = attempt]]

run_stage(node, state, o) ==
    CASE node = "trend_researcher" -> trend_researcher(state, o)
      [] node = "scriptwriter" -> scriptwriter(state, o)
      [] node = "media_producer" -> media_producer(state, o)
      [] node = "auto_editor" -> auto_editor(state, o)

(***************************************************************************)
(* Gate nodes on resume: the value interrupt() returns is the payload.     *)
(***************************************************************************)
human_review_gate(state, payload) ==
    [state EXCEPT
       !.human_approved = IF payload.approved = "missing" THEN "false"
                          ELSE payload.approved,
       !.human_feedback = payload.feedback]

topic_selection_gate(state, payload) ==
    [state EXCEPT !.trend_data = IF @ = "none" THEN "empty" ELSE @,
                  !.topic_selected = "str",
                  !.topic_selection_approved = "true"]

speaker_selection_gate(state, payload) ==
    [state EXCEPT !.speaker_selection_approved = "true"]

audio_choice_gate(state, payload) ==
    [state EXCEPT
       !.audio_source = IF payload.audio_source = "missing" THEN "tts"
                        ELSE payload.audio_source,
       !.audio_choice_approved = "true",
       !.audio_files = payload.audio_files]

hook_prompt_gate(state, payload) == [state EXCEPT !.hook_prompt_approved = "true"]

run_gate(node, state, payload) ==
    CASE node = "topic_selection_gate" -> topic_selection_gate(state, payload)
      [] node = "speaker_selection_gate" -> speaker_selection_gate(state, payload)
      [] node = "human_review_gate" -> human_review_gate(state, payload)
      [] node = "audio_choice_gate" -> audio_choice_gate(state, payload)
      [] node = "hook_prompt_gate" -> hook_prompt_gate(state, payload)

(***************************************************************************)
(* api/routes.py: observation                                              *)
(***************************************************************************)
WaitingStatus(gate) ==
    CASE gate = "topic_selection_gate" -> "waiting_for_topic_selection"
      [] gate = "speaker_selection_gate" -> "waiting_for_speaker_selection"
      [] gate = "human_review_gate" -> "waiting_for_review"
      [] gate = "audio_choice_gate" -> "waiting_for_audio_choice"
      [] gate = "hook_prompt_gate" -> "waiting_for_hook_prompt"

\* graph.aget_state(config) as the endpoints see it: the call raises, or it
\* returns a snapshot, whose values are those of the latest checkpoint
aget_state(state) == [raised |-> FALSE, values_none |-> FALSE, values |-> state]
aget_state_raises(state) == [raised |-> TRUE, values_none |-> FALSE, values |-> state]
aget_state_none(state) == [raised |-> FALSE, values_none |-> TRUE, values |-> state]

\* the status the endpoint answers with: "running" when the store raises,
\* HTTP 404 when the snapshot has no values
get_pipeline_status(snapshot) ==
    IF snapshot.raised THEN "running"
    ELSE IF snapshot.values_none THEN "404"
    ELSE LET state == snapshot.values
         IN IF state.error # "none" THEN "failed"
            ELSE IF state.editor_output # "none" THEN "completed"
            ELSE IF state.next \in Gates THEN WaitingStatus(state.next)
            ELSE "running"

\* aupdate_state(config, {"error": msg}): a new checkpoint with the error
\* written; the pending next node is kept
_set_error_state(state, error_msg) == [state EXCEPT !.error = error_msg]

\* the message each background task records when its graph invocation raises
ErrorMsg(kind) ==
    CASE kind = "start" -> "pipeline run failed"
      [] kind = "topic_selection_gate" -> "topic selection resume failed"
      [] kind = "speaker_selection_gate" -> "speaker selection resume failed"
      [] kind = "human_review_gate" -> "review resume failed"
      [] kind = "audio_choice_gate" -> "audio choice resume failed"
      [] kind = "hook_prompt_gate" -> "hook prompt resume failed"

(***************************************************************************)
(* Dispatch cycles                                                         *)
(***************************************************************************)
Cycles == 1..(MaxExtra + 1)

IdleCycle == [st |-> "idle", kind |-> "none", payload |-> NoPayload,
              fresh |-> FALSE, loc |-> initial_state]

\* `last` records the most recent event of the behaviour: a stage or gate
\* superstep (with what the node read and what the router returned), a call
\* of a resume endpoint (with its response) or a call of the stream endpoint
NoLast == [ev |-> "none", node |-> "none", q |-> "absent", pre |-> 0, count |-> 0,
           result |-> "none", fb_seen |-> "none",
           fb_given |-> "none", rejected |-> FALSE, payload |-> NoPayload,
           ha |-> "none", kind |-> "none", gates_done |-> {}]

\* the gates whose node has returned its approval into the state
ApprovedGates(state) ==
    {g \in Gates :
        \/ g = "topic_selection_gate" /\ state.topic_selection_approved = "true"
        \/ g = "speaker_selection_gate" /\ state.speaker_selection_approved = "true"
        \/ g = "human_review_gate" /\ state.human_approved = "true"
        \/ g = "audio_choice_gate" /\ state.audio_choice_approved = "true"
        \/ g = "hook_prompt_gate" /\ state.hook_prompt_approved = "true"}

\* the scheduled background tasks and stream generators are an unordered
\* collection: of the arrangements of the same invocations in the slots, one
\* is kept
Arrange(f) ==
    CHOOSE g \in {[c \in Cycles |-> f[p[c]]] : p \in Permutations(Cycles)} : TRUE

InFlight == {c \in Cycles : cyc[c].st = "running"}
Scheduled == {c \in Cycles : cyc[c].st # "idle"}
FreeSlot(c) == cyc[c].st = "idle" /\ \A d \in Cycles : d < c => cyc[d].st # "idle"

Init ==
    /\ ckpt = initial_state
    /\ cyc = [c \in Cycles |-> IF c = 1
                               THEN [IdleCycle EXCEPT !.st = "queued", !.kind = "start"]
                               ELSE IdleCycle]
    /\ accepted = 0
    /\ last = NoLast
    /\ extras = 0
    /\ executed = [s \in Stages |-> 0]
    /\ fails = [s \in Stages |-> 0]

\* _run_pipeline: graph.ainvoke(initial_state): the input is written as the
\* run's first checkpoint and the entry point becomes the next node
_run_pipeline(c) ==
    /\ cyc[c].st = "queued" /\ cyc[c].kind = "start"
    /\ LET s == [initial_state EXCEPT !.next = "trend_researcher"]
       IN /\ ckpt' = s
          /\ cyc' = Arrange([cyc EXCEPT ![c] = [@ EXCEPT !.st = "running", !.loc = s]])
    /\ accepted' = 0
    /\ last' = NoLast
    /\ UNCHANGED <<extras, executed, fails>>

\* a resume task or a stream starts its graph invocation: the checkpoint is
\* loaded into the invocation's working copy
CycleLoad(c) ==
    /\ cyc[c].st = "queued" /\ cyc[c].kind # "start"
    /\ cyc' = Arrange([cyc EXCEPT ![c] = [@ EXCEPT !.st = "running",
                                           !.loc = ckpt,
                                           !.fresh = (cyc[c].kind \in Gates)]])
    /\ last' = NoLast
    /\ UNCHANGED <<ckpt, accepted, extras, executed, fails>>

\* the invocation has nothing to execute: the graph has ended
CycleEnd(c) ==
    /\ cyc[c].st = "running" /\ cyc[c].loc.next = END
    /\ cyc' = Arrange([cyc EXCEPT ![c] = IdleCycle])
    /\ last' = NoLast
    /\ UNCHANGED <<ckpt, accepted, extras, executed, fails>>

\* one superstep on a stage node: run the node, merge its update, resolve the
\* conditional edge, save the checkpoint; an exception out of the invocation
\* is caught by the background task, which records it with _set_error_state
\* (the history variables `executed` and `fails` are left to the
\* specification)
StageStep(c) ==
    /\ cyc[c].st = "running" /\ cyc[c].loc.next \in Stages
    /\ cyc[c].loc.retry_counts[cyc[c].loc.next] < MaxAttempts
    /\ \E o \in Outcomes :
         LET node == cyc[c].loc.next
             s0 == cyc[c].loc
             s1 == [run_stage(node, s0, o) EXCEPT
                      !.fb_given = IF node = "scriptwriter" THEN "none" ELSE @]
             dest == build_graph(node, s1)
             s2 == [s1 EXCEPT !.next = dest]
         IN /\ last' = [ev |-> "stage", node |-> node,
                        q |-> IF s1.quality.passed THEN "passed" ELSE "failed",
                        pre |-> s0.retry_counts[node],
                        count |-> s1.retry_counts[node],
                        result |-> router(node, s1),
                        fb_seen |-> IF node = "scriptwriter" THEN s0.human_feedback
                                    ELSE "none",
                        fb_given |-> s0.fb_given,
                        rejected |-> (node = "scriptwriter" /\ s0.human_approved = "false"),
                        payload |-> NoPayload,
                        ha |-> s1.human_approved,
                        kind |-> cyc[c].kind,
                        gates_done |-> ApprovedGates(s0)]
            /\ IF dest = "KeyError"
               THEN /\ ckpt' = IF cyc[c].kind = "stream" THEN ckpt
                               ELSE _set_error_state(ckpt, ErrorMsg(cyc[c].kind))
                    /\ cyc' = Arrange([cyc EXCEPT ![c] = IdleCycle])
                    /\ accepted' = IF cyc[c].kind = "stream" THEN accepted ELSE 0
               ELSE /\ ckpt' = s2
                    /\ cyc' = Arrange([cyc EXCEPT ![c] =
                                 IF dest = END THEN IdleCycle
                                 ELSE [@ EXCEPT !.loc = s2, !.fresh = FALSE]])
                    /\ accepted' = 0
    /\ UNCHANGED extras

\* one superstep on a gate node whose interrupt() returns the resume value
\* (the history variable `executed` is left to the specification)
GateResume(c) ==
    /\ cyc[c].st = "running" /\ cyc[c].loc.next \in Gates /\ cyc[c].fresh
    /\ LET node == cyc[c].loc.next
           s1 == [run_gate(node, cyc[c].loc, cyc[c].payload) EXCEPT
                    !.fb_given = IF node = "human_review_gate"
                                 THEN cyc[c].payload.feedback ELSE @]
           dest == build_graph(node, s1)
           s2 == [s1 EXCEPT !.next = dest]
       IN /\ ckpt' = s2
          /\ cyc' = Arrange([cyc EXCEPT ![c] = [@ EXCEPT !.loc = s2, !.fresh = FALSE,
                                                     !.payload = NoPayload]])
          /\ last' = [NoLast EXCEPT !.ev = "gate", !.node = node, !.result = dest,
                                    !.payload = cyc[c].payload,
                                    !.ha = s1.human_approved,
                                    !.fb_seen = s1.human_feedback,
                                    !.kind = cyc[c].kind]
    /\ accepted' = 0
    /\ UNCHANGED <<extras, fails>>

\* a gate node with no resume value: interrupt() raises, the invocation
\* returns and the checkpoint keeps the gate as the next node
GateInterrupt(c) ==
    /\ cyc[c].st = "running" /\ cyc[c].loc.next \in Gates /\ ~cyc[c].fresh
    /\ cyc' = Arrange([cyc EXCEPT ![c] = IdleCycle])
    /\ last' = NoLast
    /\ UNCHANGED <<ckpt, accepted, extras, executed, fails>>

\* the checkpoint store raises while an invocation loads or saves: the
\* invocation ends with the exception and nothing of the step is saved; the
\* background task's except branch calls _set_error_state, whose own
\* aupdate_state either writes the error or raises too (and is only logged);
\* an exception out of the stream generator is recorded nowhere
StoreFailure(c) ==
    /\ cyc[c].st = "running"
    /\ extras < MaxExtra
    /\ \E recorded \in BOOLEAN :
         ckpt' = IF recorded /\ cyc[c].kind # "stream"
                 THEN _set_error_state(ckpt, ErrorMsg(cyc[c].kind))
                 ELSE ckpt
    /\ cyc' = Arrange([cyc EXCEPT ![c] = IdleCycle])
    /\ accepted' = IF cyc[c].fresh THEN 0 ELSE accepted
    /\ extras' = extras + 1
    /\ UNCHANGED <<executed, fails>>
    /\ last' = [NoLast EXCEPT !.ev = "store", !.kind = cyc[c].kind]

(***************************************************************************)
(* api/routes.py: the resume endpoints and the stream endpoint             *)
(***************************************************************************)
Payloads(gate) ==
    CASE gate = "human_review_gate" -> ReviewPayloads
      [] gate = "audio_choice_gate" -> AudioPayloads
      [] OTHER -> {NoPayload}

\* state.next of graph.aget_state(config)
next_nodes(state) == IF state.next = END THEN {} ELSE {state.next}

\* the status in the response to an accepted call: submit_review answers a
\* rejection with "revision_requested"
response_status(gate, payload) ==
    IF gate = "human_review_gate" /\ payload.approved # "true"
    THEN "revision_requested"
    ELSE "resumed"

AcceptedStatuses == {"resumed", "revision_requested"}

\* the resume endpoints (submit_topic_selection, submit_speaker_selection,
\* submit_review, submit_audio_choice, submit_hook_prompt), one outcome each.
\* graph.aget_state raises: HTTP 404, nothing is scheduled
submit_not_found(gate, payload) ==
    /\ extras < MaxExtra
    /\ extras' = extras + 1
    /\ last' = [NoLast EXCEPT !.ev = "submit", !.result = "404"]
    /\ UNCHANGED <<ckpt, cyc, accepted, executed, fails>>

\* the gate is not the pending node: HTTP 400, nothing is scheduled
submit_rejected(gate, payload) ==
    /\ gate \notin next_nodes(ckpt)
    /\ extras < MaxExtra
    /\ extras' = extras + 1
    /\ last' = [NoLast EXCEPT !.ev = "submit", !.result = "400"]
    /\ UNCHANGED <<ckpt, cyc, accepted, executed, fails>>

\* the gate is the pending node: the resume is scheduled as a background task
submit_accepted(gate, payload) ==
    /\ gate \in next_nodes(ckpt)
    /\ accepted > 0 => extras < MaxExtra
    /\ \E c \in Cycles :
         /\ FreeSlot(c)
         /\ cyc' = Arrange([cyc EXCEPT ![c] = [IdleCycle EXCEPT !.st = "queued",
                                                               !.kind = gate,
                                                               !.payload = payload]])
    /\ accepted' = accepted + 1
    /\ extras' = IF accepted > 0 THEN extras + 1 ELSE extras
    /\ last' = [NoLast EXCEPT !.ev = "submit", !.node = gate,
                              !.result = response_status(gate, payload),
                              !.payload = payload]
    /\ UNCHANGED <<ckpt, executed, fails>>

submit_resume(gate, payload) ==
    \/ submit_not_found(gate, payload)
    \/ submit_rejected(gate, payload)
    \/ submit_accepted(gate, payload)

submit_audio_choice ==
    \E payload \in AudioPayloads : submit_resume("audio_choice_gate", payload)

SubmitResume ==
    \/ \E gate \in Gates \ {"audio_choice_gate"} : \E payload \in Payloads(gate) :
          submit_resume(gate, payload)
    \/ submit_audio_choice

\* a client that answers the pending suspension, the store answering
ResumePending ==
    \E gate \in Gates : \E payload \in Payloads(gate) : submit_accepted(gate, payload)

\* stream_pipeline_status: graph.astream_events(None, config) invokes the graph
stream_pipeline_status ==
    /\ extras < MaxExtra
    /\ \E c \in Cycles :
         /\ FreeSlot(c)
         /\ cyc' = Arrange([cyc EXCEPT ![c] = [IdleCycle EXCEPT !.st = "queued",
                                                      !.kind = "stream"]])
    /\ extras' = extras + 1
    /\ UNCHANGED <<executed, fails>>
    /\ last' = [NoLast EXCEPT !.ev = "stream"]
    /\ UNCHANGED <<ckpt, accepted>>

Next ==
    \/ \E c \in Cycles : _run_pipeline(c)
    \/ \E c \in Cycles : CycleLoad(c)
    \/ \E c \in Cycles : CycleEnd(c)
    \/ \E c \in Cycles : StageStep(c) /\ UNCHANGED <<executed, fails>>
    \/ \E c \in Cycles : GateResume(c) /\ UNCHANGED executed
    \/ \E c \in Cycles : GateInterrupt(c)
    \/ \E c \in Cycles : StoreFailure(c)
    \/ SubmitResume
    \/ stream_pipeline_status

Spec == Init /\ [][Next]_vars

(***************************************************************************)
(* One run driven by a well-behaved client: every suspension is resumed    *)
(* once and at the gate that is pending, the stream endpoint is not called *)
(* and the checkpoint store does not fail, so at most one graph invocation *)
(* does work at a time.  Each gate is resumed with every payload its       *)
(* request model admits.                                                   *)
(***************************************************************************)
InitSequential ==
    /\ ckpt = initial_state
    /\ cyc = [c \in Cycles |-> IF c = 1
                               THEN [IdleCycle EXCEPT !.st = "queued", !.kind = "start"]
                               ELSE IdleCycle]
    /\ accepted = 0
    /\ last = NoLast
    /\ extras = MaxExtra
    /\ executed = [s \in Stages |-> 0]
    /\ fails = [s \in Stages |-> 0]

NextSequential ==
    \/ \E c \in Cycles : _run_pipeline(c)
    \/ \E c \in Cycles : CycleLoad(c)
    \/ \E c \in Cycles : StageStep(c) /\ UNCHANGED <<executed, fails>>
    \/ \E c \in Cycles : GateResume(c) /\ UNCHANGED executed
    \/ \E c \in Cycles : GateInterrupt(c)
    \/ ResumePending

SpecSequential == InitSequential /\ [][NextSequential]_vars

\* the same run under fair scheduling: a background task that can take a
\* step eventually takes it, and a pending suspension is eventually resumed
CycleStep ==
    \E c \in Cycles :
        \/ _run_pipeline(c)
        \/ CycleLoad(c)
        \/ StageStep(c) /\ UNCHANGED <<executed, fails>>
        \/ GateResume(c) /\ UNCHANGED executed
        \/ GateInterrupt(c)

SpecFair ==
    /\ InitSequential
    /\ [][NextSequential]_vars
    /\ WF_vars(CycleStep)
    /\ WF_vars(ResumePending)

(***************************************************************************)
(* Python's float: IEEE 754 binary64, every operation rounded to the       *)
(* nearest representable number, ties to the even one.  A non-negative     *)
(* real number is held exactly as a whole number of units of 2^-75,        *)
(* written in base 2^15 with the least significant digit first: digits     *)
(* 1..5 are the fraction, digits 6 and 7 the integer part.  A float is     *)
(* such a number with at most 53 significant bits.  The numbers of the     *)
(* composer lie between 2^-11 (half a millisecond) and 2^14 seconds and    *)
(* the scores of the media assessment between 2^-7 and 1, so every float   *)
(* met, and every exact sum and product below, is a whole number of units. *)
(***************************************************************************)
Radix == 2^15
Digits == 1..7

FromInt(n) == [j \in Digits |-> IF j = 6 THEN n % Radix
                                ELSE IF j = 7 THEN n \div Radix ELSE 0]

\* int(x): the integer part
Floor(X) == X[6] + Radix * X[7]

RECURSIVE AddDigits(_, _, _, _)
AddDigits(X, Y, j, carry) ==
    IF j > 7 THEN <<>>
    ELSE LET t == X[j] + Y[j] + carry
         IN <<t % Radix>> \o AddDigits(X, Y, j + 1, t \div Radix)

\* the exact sum
Add(X, Y) == AddDigits(X, Y, 1, 0)

RECURSIVE SubDigits(_, _, _, _)
SubDigits(X, Y, j, borrow) ==
    IF j > 7 THEN <<>>
    ELSE LET t == X[j] + Radix - Y[j] - borrow
         IN <<t % Radix>> \o SubDigits(X, Y, j + 1, 1 - (t \div Radix))

\* the exact difference X - Y of numbers with X >= Y
Sub(X, Y) == SubDigits(X, Y, 1, 0)

RECURSIVE MulDigits(_, _, _, _)
MulDigits(X, m, j, carry) ==
    IF j > 7 THEN <<>>
    ELSE LET t == X[j] * m + carry
         IN <<t % Radix>> \o MulDigits(X, m, j + 1, t \div Radix)

\* the exact product with a whole number m <= 2^15
MulSmall(X, m) == MulDigits(X, m, 1, 0)

\* X < Y
Less(X, Y) ==
    \E j \in Digits : X[j] < Y[j] /\ \A k \in Digits : k > j => X[k] = Y[k]

\* bit i of X, bit 0 being the unit 2^-75
Bit(X, i) == (X[(i \div 15) + 1] \div 2^(i % 15)) % 2

\* the position of the most significant 1 bit of X # 0
Msb(X) ==
    LET j == CHOOSE j \in Digits : X[j] # 0 /\ \A k \in Digits : k > j => X[k] = 0
        b == CHOOSE b \in 0..14 : 2^b <= X[j] /\ X[j] < 2^(b + 1)
    IN 15 * (j - 1) + b

\* X with its n lowest bits cleared
Truncate(X, n) ==
    [j \in Digits |->
        LET lo == 15 * (j - 1)
        IN IF lo + 15 <= n THEN 0
           ELSE IF lo >= n THEN X[j]
           ELSE X[j] - (X[j] % 2^(n - lo))]

\* the number 2^n units
Unit(n) == [j \in Digits |-> IF j = (n \div 15) + 1 THEN 2^(n % 15) ELSE 0]

\* the float nearest to X + e, where 0 <= e < 1 unit and e # 0 iff sticky:
\* 53 significant bits are kept, and the rest rounds to nearest, ties to even
Round(X, sticky) ==
    IF \A j \in Digits : X[j] = 0 THEN X
    ELSE LET drop == Msb(X) - 52
         IN IF drop <= 0 THEN X
            ELSE LET kept == Truncate(X, drop)
                     half == Bit(X, drop - 1) = 1
                     below == sticky \/ Truncate(X, drop - 1) # X
                     odd == Bit(X, drop) = 1
                 IN IF half /\ (below \/ odd) THEN Add(kept, Unit(drop)) ELSE kept

RECURSIVE QuotientDigits(_, _, _)
\* the j fraction digits of rem / k, for rem < k <= 2^15
QuotientDigits(rem, k, j) ==
    IF j = 0 THEN <<>>
    ELSE LET t == rem * Radix
         IN QuotientDigits(t % k, k, j - 1) \o <<t \div k>>

RECURSIVE Remainder(_, _, _)
\* what the division leaves after j fraction digits
Remainder(rem, k, j) ==
    IF j = 0 THEN rem ELSE Remainder((rem * Radix) % k, k, j - 1)

\* a / k for whole numbers a >= 0 and k > 0, as Python's float division
fdiv(a, k) ==
    Round(QuotientDigits(a % k, k, 5) \o <<(a \div k) % Radix, (a \div k) \div Radix>>,
          Remainder(a % k, k, 5) # 0)

\* x + y of floats
fadd(x, y) == Round(Add(x, y), FALSE)

\* x * m of a float and a whole number
fmul(x, m) == Round(MulSmall(x, m), FALSE)

\* x - y < bound of floats x, y and a float bound > 0: a negative difference
\* is below the bound, another one is rounded and compared
fsub_less(x, y, bound) ==
    IF Less(x, y) THEN TRUE ELSE Less(Round(Sub(x, y), FALSE), bound)

(***************************************************************************)
(* nodes/auto_editor.py: the caption composer.  A caption is [id, start,   *)
(* end], id being its position in the transcription and start and end      *)
(* being whole milliseconds (SubRipTime.ordinal).  A segment's duration is *)
(* a float of seconds; a segment is written here by the milliseconds d     *)
(* whose float d / 1000 it carries (2300 for the float 2.3).               *)
(***************************************************************************)
\* seg["duration"] of the segment written d
duration(d) == fdiv(d, 1000)

RECURSIVE cursor(_, _)
\* the cursor after the first n segments: the float running sum
cursor(audio_segments, n) ==
    IF n = 0 THEN FromInt(0)
    ELSE fadd(cursor(audio_segments, n - 1), duration(audio_segments[n]))

\* faulty variant: every window starts at the beginning of the narration
scene_windows_from_zero(audio_segments) ==
    [i \in 1..Len(audio_segments) |-> <<FromInt(0), cursor(audio_segments, i)>>]

\* the scenes' windows (win_start, win_end), floats of seconds
scene_windows(audio_segments) ==
    [i \in 1..Len(audio_segments) |->
        <<cursor(audio_segments, i - 1), cursor(audio_segments, i)>>]

\* (sub.start.ordinal + sub.end.ordinal) / 2000.0
sub_mid(sub) == fdiv(sub.start + sub.end, 2000)

\* the first window with win_start <= sub_mid < win_end, 0 when there is none
bucket_of(sub, windows) ==
    LET mid == sub_mid(sub)
        hits == {i \in DOMAIN windows :
                    ~Less(mid, windows[i][1]) /\ Less(mid, windows[i][2])}
    IN IF hits = {} THEN 0 ELSE CHOOSE i \in hits : \A j \in hits : i <= j

\* the last caption of a bucket is given int(win_end * 1000) as its end when
\* win_end - last_sub_end < 1.0
extend_last(bucket, win_end) ==
    IF bucket = <<>> THEN bucket
    ELSE LET last_sub == bucket[Len(bucket)]
             last_sub_end == fdiv(last_sub.end, 1000)
         IN IF fsub_less(win_end, last_sub_end, fdiv(Tolerance, 1000))
            THEN [bucket EXCEPT
                    ![Len(bucket)] = [last_sub EXCEPT !.end = Floor(fmul(win_end, 1000))]]
            ELSE bucket

_distribute_captions(subs, audio_segments) ==
    LET windows == scene_windows(audio_segments)
        buckets == [i \in 1..Len(audio_segments) |->
                       SelectSeq(subs, LAMBDA sub : bucket_of(sub, windows) = i)]
    IN [i \in 1..Len(audio_segments) |-> extend_last(buckets[i], windows[i][2])]

\* inputs of the composer
DurationValues == {100, 200, 2000, 3000, 4000}
CaptionTimes == {0, 200, 400, 2800, 3300, 5000, 6600, 9500}

SegmentLists == UNION {[1..n -> DurationValues] : n \in 0..MaxSegments}

CaptionSpans == {sp \in CaptionTimes \X CaptionTimes : sp[1] < sp[2]}

CaptionStreams ==
    UNION {{[k \in 1..n |-> [id |-> k, start |-> f[k][1], end |-> f[k][2]]] :
               f \in [1..n -> CaptionSpans]} : n \in 0..MaxCaptions}

InitCaptions ==
    /\ ckpt = initial_state
    /\ cyc = [c \in Cycles |-> IdleCycle]
    /\ accepted = 0
    /\ extras = 0
    /\ executed = [s \in Stages |-> 0]
    /\ fails = [s \in Stages |-> 0]
    /\ \E audio_segments \in SegmentLists : \E subs \in CaptionStreams :
          last = [ev |-> "srt", audio_segments |-> audio_segments, subs |-> subs,
                  buckets |-> <<>>]

Compose ==
    /\ last.ev = "srt"
    /\ last' = [last EXCEPT !.ev = "captions",
                            !.buckets = _distribute_captions(last.subs,
                                                             last.audio_segments)]
    /\ UNCHANGED <<ckpt, cyc, accepted, extras, executed, fails>>

NextCaptions == Compose

SpecCaptions == InitCaptions /\ [][NextCaptions]_vars

(***************************************************************************)
(* nodes/media_producer.py: the per-scene fan-out and its assessment.      *)
(* Scenes are numbered in script order.  results[i] is what scene i's      *)
(* generation delivered to the gather: it raised, or it returned its audio *)
(* segment, image and clip.  A file is written here by what the checks of  *)
(* _assess_quality find at its path: "ok" (a file with content), "empty"   *)
(* or "missing"; a clip's video_path is "none" when it names no file.  The  *)
(* score of this assessment is kept in thousandths.                        *)
(***************************************************************************)
FileStates == {"ok", "empty", "missing"}

\* os.path.isfile(path) and os.path.getsize(path) > 0
file_check(file) == file = "ok"

SceneRaised == [returned |-> FALSE, audio_file |-> "missing",
                image_file |-> "missing", video_path |-> "none"]
SceneReturned(audio_file, image_file) ==
    [returned |-> TRUE, audio_file |-> audio_file, image_file |-> image_file,
     video_path |-> "none"]

\* results of asyncio.gather(..., return_exceptions=True) collected in order:
\* the scenes whose generation did not raise
collect_results(n, results) ==
    SelectSeq([i \in 1..n |-> i], LAMBDA i : results[i].returned)

\* round(score, 3) of a float score, in thousandths: the exact value of the
\* float is rounded to three decimals, a value exactly half way going to the
\* even neighbour
rounded_score(score) ==
    LET X == MulSmall(score, 1000)
        whole == Floor(X)
        frac == [X EXCEPT ![6] = 0, ![7] = 0]
        half == Unit(74)
    IN IF Less(frac, half) THEN whole
       ELSE IF Less(half, frac) THEN whole + 1
       ELSE whole + (whole % 2)

\* _assess_quality of media_producer: one check per audio segment, one per
\* image, one per clip that names a video file, one for the concatenated
\* audio and one for the counts; score is the float passed_checks /
\* total_checks and passed is score >= settings.quality_threshold, the float
\* 0.7

media_assess_quality(segments, images, clips, full_audio, expected_count) ==
    LET expected_videos ==
            Cardinality({k \in DOMAIN clips : clips[k].video_path # "none"})
        total_checks == expected_count * 2 + expected_videos + 2
        passed_checks ==
            Cardinality({k \in DOMAIN segments : file_check(segments[k].audio_file)})
            + Cardinality({k \in DOMAIN images : file_check(images[k].image_file)})
            + Cardinality({k \in DOMAIN clips : /\ clips[k].video_path # "none"
                                                 /\ file_check(clips[k].video_path)})
            + (IF file_check(full_audio) THEN 1 ELSE 0)
            + (IF Len(segments) = expected_count
                  /\ Len(images) = expected_count
                  /\ Len(clips) = expected_count THEN 1 ELSE 0)
        score == fdiv(passed_checks, total_checks)
    IN [passed_checks |-> passed_checks, total_checks |-> total_checks,
        score |-> rounded_score(score),
        passed |-> ~Less(score, fdiv(QualityThreshold, 10))]

\* what the calls after the gather do: _concatenate_audio raises (the
\* hook-prompt call is then not made), or it writes the narration file and
\* the hook-prompt LLM call raises or returns
TailOutcomes ==
    {[concatenate |-> "raises", hook_prompt |-> "none"],
     [concatenate |-> "ok", hook_prompt |-> "raises"],
     [concatenate |-> "ok", hook_prompt |-> "ok"]}

\* the except branch of the node: empty assets, score 0
MediaFailed ==
    [audio_segments |-> <<>>, images |-> <<>>, video_clips |-> <<>>,
     audio_path |-> "none", hook_video_prompt |-> "none", raised |-> TRUE,
     quality |-> [passed_checks |-> 0, total_checks |-> 1, score |-> 0,
                  passed |-> FALSE]]

\* the body of media_producer for n scenes: no scene at all, no audio
\* segment produced, or a raise of the concatenation or of the hook-prompt
\* call goes to the except branch
media_assets_of(n, results, tail) ==
    LET kept == collect_results(n, results)
        audio_segments == [k \in 1..Len(kept) |->
                              [scene_id |-> kept[k],
                               audio_file |-> results[kept[k]].audio_file]]
        images == [k \in 1..Len(kept) |->
                      [scene_id |-> kept[k],
                       image_file |-> results[kept[k]].image_file]]
        video_clips == [k \in 1..Len(kept) |->
                           [scene_id |-> kept[k],
                            video_path |-> results[kept[k]].video_path]]
    IN IF n = 0 \/ kept = <<>>
          \/ tail.concatenate = "raises" \/ tail.hook_prompt = "raises"
       THEN MediaFailed
       ELSE [audio_segments |-> audio_segments, images |-> images,
             video_clips |-> video_clips, audio_path |-> tail.concatenate,
             hook_video_prompt |-> "str", raised |-> FALSE,
             quality |-> media_assess_quality(audio_segments, images, video_clips,
                                              tail.concatenate, n)]

\* a scene returns after AudioFileClip has read its audio file, so that file
\* has content; the image file is whatever the generator's download wrote
SceneResults == {SceneRaised, SceneReturned("ok", "ok"), SceneReturned("ok", "empty")}

InitMedia ==
    /\ ckpt = [initial_state EXCEPT !.next = "media_producer", !.script_data = "ok"]
    /\ cyc = [c \in Cycles |-> IdleCycle]
    /\ accepted = 0
    /\ extras = 0
    /\ executed = [s \in Stages |-> 0]
    /\ fails = [s \in Stages |-> 0]
    /\ \E n \in MinScenes..MaxScenes : \E results \in [1..n -> SceneResults] :
          last = [ev |-> "scenes", n |-> n, results |-> results,
                  tail |-> [concatenate |-> "none", hook_prompt |-> "none"],
                  media_assets |-> MediaFailed, retry |-> FALSE]

ProduceMedia ==
    /\ last.ev = "scenes"
    /\ \E tail \in TailOutcomes :
          LET out == media_assets_of(last.n, last.results, tail)
              attempt == ckpt.retry_counts["media_producer"] + 1
              q == [present |-> TRUE, node_name |-> "media_producer",
                    passed |-> out.quality.passed, score |-> out.quality.score,
                    attempt |-> attempt]
              s1 == [ckpt EXCEPT
                       !.media_assets = IF out.raised THEN "empty" ELSE "ok",
                       !.quality = q,
                       !.retry_counts = [@ EXCEPT !["media_producer"] = attempt]]
          IN /\ ckpt' = [s1 EXCEPT !.next = route_after_media(s1)]
             /\ last' = [last EXCEPT !.ev = "media", !.tail = tail,
                                     !.media_assets = out,
                                     !.retry = (route_after_media(s1) = "media_producer")]
    /\ UNCHANGED <<cyc, accepted, extras, executed, fails>>

NextMedia == ProduceMedia

SpecMedia == InitMedia /\ [][NextMedia]_vars

(***************************************************************************)
(* The stage nodes as functions of the state they are given: every vector  *)
(* of counters within the budget, with and without the upstream outputs,   *)
(* and every outcome of the stage's collaborators; `handled` tells that,   *)
(* in an attempt that does not raise, a collaborator call threw and was    *)
(* caught before the stage's boundary.                                     *)
(***************************************************************************)
InitStages ==
    /\ ckpt \in {[initial_state EXCEPT !.next = n, !.retry_counts = rc,
                                        !.trend_data = td, !.topic_selected = ts,
                                        !.script_data = sd, !.media_assets = ma] :
                    n \in Stages, rc \in [Stages -> 0..MaxRetries],
                    td \in {"none", "ok"}, ts \in {"none", "str"},
                    sd \in {"none", "ok"}, ma \in {"none", "ok"}}
    /\ cyc = [c \in Cycles |-> IdleCycle]
    /\ accepted = 0
    /\ extras = 0
    /\ executed = [s \in Stages |-> 0]
    /\ fails = [s \in Stages |-> 0]
    /\ last = [ev |-> "none"]

ApplyStage ==
    /\ last.ev = "none"
    /\ \E o \in Outcomes : \E handled \in BOOLEAN :
          LET s1 == run_stage(ckpt.next, ckpt, o)
          IN /\ o.raises => ~handled
             /\ ckpt' = s1
             /\ last' = [ev |-> "applied", node |-> ckpt.next, o |-> o,
                         handled |-> handled, pre |-> ckpt,
                         result |-> router(ckpt.next, s1)]
    /\ UNCHANGED <<cyc, accepted, extras, executed, fails>>

NextStages == ApplyStage

SpecStages == InitStages /\ [][NextStages]_vars

(***************************************************************************)
(* The routers as pure functions: every quality value and every counter    *)
(* vector is drawn as an input, and one step applies the router of the     *)
(* stage the input names.                                                  *)
(***************************************************************************)
MaxProbeCount == MaxRetries + 1

QualityInputs ==
    {NoQuality,
     [present |-> TRUE, node_name |-> "any", passed |-> TRUE, score |-> 7, attempt |-> 1],
     [present |-> TRUE, node_name |-> "any", passed |-> FALSE, score |-> 0, attempt |-> 1]}

QualityKind(q) == IF ~q.present THEN "absent" ELSE IF q.passed THEN "passed" ELSE "failed"

InitRouter ==
    /\ ckpt \in {[initial_state EXCEPT !.next = n, !.quality = q, !.retry_counts = rc] :
                    n \in Stages, q \in QualityInputs,
                    rc \in [Stages -> 0..MaxProbeCount]}
    /\ cyc = [c \in Cycles |-> IdleCycle]
    /\ accepted = 0
    /\ last = NoLast
    /\ extras = 0
    /\ executed = [s \in Stages |-> 0]
    /\ fails = [s \in Stages |-> 0]

RouteProbe ==
    /\ last.ev = "none"
    /\ last' = [NoLast EXCEPT !.ev = "probe", !.node = ckpt.next,
                              !.q = QualityKind(ckpt.quality),
                              !.count = ckpt.retry_counts[ckpt.next],
                              !.result = router(ckpt.next, ckpt)]
    /\ UNCHANGED <<ckpt, cyc, accepted, extras, executed, fails>>

NextRouter == RouteProbe

SpecRouter == InitRouter /\ [][NextRouter]_vars

(***************************************************************************)
(* Properties                                                              *)
(***************************************************************************)
RetryEligible == {"trend_researcher", "scriptwriter", "media_producer"}

Successor(stage) ==
    CASE stage = "trend_researcher" -> "topic_selection_gate"
      [] stage = "scriptwriter" -> "human_review_gate"
      [] stage = "media_producer" -> "hook_prompt_gate"
      [] stage = "auto_editor" -> END

\* the decision the specification gives for a retry-eligible stage
Decision(stage, q, count) ==
    IF q \in {"absent", "passed"} THEN Successor(stage)
    ELSE IF count < MaxRetries THEN stage
    ELSE END

\* C1: for research, draft and media the router's result is the function of
\* (quality, retry_counts[S]) the specification gives: the successor when the
\* assessment is absent or passed, S when it failed and retry_counts[S] is
\* below max_retries, the terminal end otherwise, whatever the other counters.
C1_RouterDecision ==
    (last.ev = "probe" /\ last.node \in RetryEligible)
        => last.result = Decision(last.node, last.q, last.count)

C1_Witness ==
    /\ last.ev = "probe" /\ last.node = "media_producer"
    /\ last.q = "failed" /\ last.count = MaxRetries + 1
    /\ last.result = END
    /\ ckpt.retry_counts["scriptwriter"] = 0

\* C2 as stated: a stage whose first k attempts have all failed, k <=
\* max_retries, is returned by the router again (so that attempt k+1 can
\* pass).
C2_Original ==
    (/\ last.ev = "stage" /\ last.node \in RetryEligible
     /\ last.q = "failed" /\ last.count <= MaxRetries)
        => last.result = last.node

\* C2 amended: an attempt of research, draft or media that reads
\* retry_counts[S] = k in its invocation's working copy writes k+1; when it
\* passes, the invocation goes on to the stage's successor with
\* retry_counts[S] = k+1; when it fails, the router returns S again exactly
\* when k+1 is below max_retries, so after max_retries counted attempts the
\* router ends the invocation instead of returning S.
C2_AttemptBudget ==
    (last.ev = "stage" /\ last.node \in RetryEligible)
        => /\ last.count = last.pre + 1
           /\ last.q = "passed" =>
                 /\ last.result = Successor(last.node)
                 /\ ckpt.next = Successor(last.node)
                 /\ ckpt.retry_counts[last.node] = last.pre + 1
           /\ last.q = "failed" =>
                 /\ last.result = (IF last.count < MaxRetries THEN last.node ELSE END)
                 /\ ckpt.next = last.result
                 /\ ckpt.retry_counts[last.node] = last.pre + 1

C2_Witness ==
    /\ last.ev = "stage" /\ last.node = "trend_researcher"
    /\ last.q = "passed" /\ last.pre = MaxRetries - 1
    /\ ckpt.next = "topic_selection_gate"
    /\ ckpt.retry_counts["trend_researcher"] = MaxRetries

FailureSuccessor(stage) == IF stage = "auto_editor" THEN "upload_results" ELSE END

\* C3: once a stage has produced max_retries consecutive failing assessments
\* in the run, whichever invocation executed it, the router returns its
\* failure successor and not the stage, and no invocation is left about to
\* execute that stage.
C3_NoRetryAfterBudget ==
    /\ (last.ev = "stage" /\ last.q = "failed" /\ fails[last.node] >= MaxRetries)
          => (last.result # last.node /\ last.result = FailureSuccessor(last.node))
    /\ \A c \in Cycles :
          (cyc[c].st = "running" /\ cyc[c].loc.next \in Stages)
             => fails[cyc[c].loc.next] < MaxRetries
    /\ ckpt.next \in Stages => fails[ckpt.next] < MaxRetries

\* C4: a resume call is accepted only when the checkpoint has the call's gate
\* pending; a call that is rejected leaves the checkpoint and the scheduled
\* graph invocations as they were, and an accepted call does not itself
\* change the checkpoint.
C4_ResumeOnlyWhenSuspended ==
    [][/\ (last'.ev = "submit" /\ last'.result \in AcceptedStatuses)
             => (ckpt.next = last'.node /\ ckpt' = ckpt)
       /\ (last'.ev = "submit" /\ last'.result \in {"400", "404"})
             => (ckpt' = ckpt /\ cyc' = cyc /\ accepted' = accepted)
       /\ (Cardinality({c \in Cycles : cyc'[c].st = "queued" /\ cyc'[c].kind \in Gates})
             > Cardinality({c \in Cycles : cyc[c].st = "queued" /\ cyc[c].kind \in Gates}))
             => (last'.ev = "submit" /\ last'.result \in AcceptedStatuses)]_vars

C4_Witness ==
    /\ last.ev = "submit" /\ last.result = "400"
    /\ ckpt.next = "human_review_gate"
    /\ Scheduled = {}

\* C5: each suspension is consumed by at most one resume payload: a second
\* resume call for the gate the checkpoint has pending is rejected.
C5_SingleResume == accepted <= 1

\* C6: at no time are two graph invocations in flight for the run.
C6_SingleCycle == Cardinality(InFlight) <= 1

\* C7: when research, draft or media exhausts its retry budget the run ends
\* with its error field set and the status operation reports failed.
C7_ExhaustionReported ==
    (/\ last.ev = "stage" /\ last.node \in RetryEligible
     /\ last.q = "failed" /\ last.result = END)
        => (ckpt.error # "none" /\ get_pipeline_status(aget_state(ckpt)) = "failed")

\* C8: when the final stage fails quality with its budget exhausted the run
\* completes with the best-effort artifact and no error.
C8_EditorDegradesGracefully ==
    (/\ last.ev = "stage" /\ last.node = "auto_editor"
     /\ last.q = "failed" /\ last.count >= MaxRetries)
        => /\ ckpt.next = END
           /\ ckpt.editor_output # "none"
           /\ ckpt.error = "none"
           /\ get_pipeline_status(aget_state(ckpt)) = "completed"

\* a run has stopped for good: no invocation is scheduled and the checkpoint
\* has no next node (no stage to execute, no gate pending)
Stopped ==
    /\ Scheduled = {}
    /\ next_nodes(ckpt) = {}

\* C9: in a run that has stopped for good at most one of the error string and
\* the final artifact is non-empty.
C9_ErrorXorArtifact ==
    Stopped => ~(ckpt.error # "none" /\ ckpt.editor_output # "none")

C9_Witness ==
    /\ Stopped
    /\ last.ev = "store"
    /\ ckpt.quality.node_name = "scriptwriter" /\ ~ckpt.quality.passed
    /\ ckpt.error # "none" /\ ckpt.editor_output = "none"

\* C10: the review gate resumed with approved = true continues at the
\* audio-choice gate, and with approved = false or missing continues at draft
\* with the reviewer's feedback in human_feedback; the draft attempt that
\* follows a rejection reads that feedback, increases retry_counts[scriptwriter]
\* by one and leaves human_approved unset.
C10_ReviewDecision ==
    /\ (last.ev = "gate" /\ last.node = "human_review_gate")
          => /\ last.result = IF last.payload.approved = "true"
                              THEN "audio_choice_gate" ELSE "scriptwriter"
             /\ ckpt.next = last.result
             /\ ckpt.human_feedback = last.payload.feedback
             /\ ckpt.human_approved \in {"true", "false"}
    /\ (last.ev = "stage" /\ last.node = "scriptwriter" /\ last.rejected)
          => /\ last.fb_seen = last.fb_given
             /\ last.count = last.pre + 1
             /\ last.ha = "none"

C10_Witness ==
    /\ last.ev = "stage" /\ last.node = "scriptwriter" /\ last.rejected
    /\ last.fb_seen = "shorten body"
    /\ last.count = last.pre + 1
    /\ ckpt.human_approved = "none"

\* C11: a failure of the checkpoint store during a graph invocation is never
\* recorded in the pipeline state: the error field is what it was before and
\* the status operation does not start to report failed.
C11_StoreFailureNotRecorded ==
    [][last'.ev = "store"
          => /\ ckpt'.error = ckpt.error
             /\ (get_pipeline_status(aget_state(ckpt')) = "failed"
                    => get_pipeline_status(aget_state(ckpt)) = "failed")]_vars

\* C12: a resume payload that lacks what its gate requires is rejected by the
\* call itself: an audio-choice payload with mode manual and no scene-id to
\* audio mapping is not accepted.
C12_MalformedPayloadRejected ==
    (/\ last.ev = "submit" /\ last.node = "audio_choice_gate"
     /\ last.payload.audio_source = "manual" /\ last.payload.audio_files = "none")
        => last.result = "400"

\* a suspension is pending: the checkpoint has a gate as its next node and no
\* resume has been accepted for it
SuspensionPending == ckpt.next \in Gates /\ accepted = 0

\* C13: while a suspension is pending no stage executes, the persisted state
\* does not change, and no invocation of the run is executing or about to
\* execute a stage.
C13_SuspensionQuiescent ==
    [][SuspensionPending
          => /\ ckpt' = ckpt
             /\ last'.ev # "stage"
             /\ \A c \in Cycles :
                   cyc[c].st = "running" => cyc[c].loc.next \notin Stages]_vars

StageExhausted == last.ev = "stage" /\ last.q = "failed" /\ last.result # last.node

ReviewRejected ==
    last.ev = "gate" /\ last.node = "human_review_gate" /\ last.payload.approved # "true"

Completed ==
    /\ ckpt.next = END
    /\ Scheduled = {}
    /\ ckpt.editor_output # "none"
    /\ ckpt.error = "none"
    /\ get_pipeline_status(aget_state(ckpt)) = "completed"

\* C14: under fair scheduling a run in which no stage exhausts its retry
\* budget and no review is rejected eventually reaches the completed terminal
\* state, with the final artifact recorded and no error set.
C14_EventuallyCompleted == <>(StageExhausted \/ ReviewRejected \/ Completed)

\* C15: the status operation never reports completed while the run still has
\* a stage attempt to execute, the final stage included.
C15_NoCompletedWhileRetrying ==
    get_pipeline_status(aget_state(ckpt)) = "completed" => ckpt.next \notin Stages

RECURSIVE RunningSum(_, _)
\* the sum of the first n durations, in milliseconds
RunningSum(audio_segments, n) ==
    IF n = 0 THEN 0 ELSE RunningSum(audio_segments, n - 1) + audio_segments[n]

\* the window of scene i, from the durations alone, in milliseconds
WindowStart(audio_segments, i) == RunningSum(audio_segments, i - 1)
WindowEnd(audio_segments, i) == RunningSum(audio_segments, i)

MidpointIn(sub, audio_segments, i) ==
    /\ 2 * WindowStart(audio_segments, i) <= sub.start + sub.end
    /\ sub.start + sub.end < 2 * WindowEnd(audio_segments, i)

Occurrences(buckets, i, id) ==
    Cardinality({j \in 1..Len(buckets[i]) : buckets[i][j].id = id})

\* C16: the composer puts a caption, whole and once, into bucket i exactly when
\* the half-open window of scene i (the sum of the durations before i up to
\* that sum plus duration i) contains the caption's midpoint (start + end) / 2.
C16_MidpointBucket ==
    last.ev = "captions" =>
        \A i \in 1..Len(last.audio_segments) : \A k \in 1..Len(last.subs) :
            /\ Occurrences(last.buckets, i, k) =
                  IF MidpointIn(last.subs[k], last.audio_segments, i) THEN 1 ELSE 0
            /\ \A j \in 1..Len(last.buckets[i]) :
                  last.buckets[i][j].id = k
                     => last.buckets[i][j].start = last.subs[k].start

Distance(a, b) == IF a >= b THEN a - b ELSE b - a

\* C17: in each non-empty bucket the last caption's end is the window end when
\* the caption ends within the tolerance of the window end and is unchanged
\* otherwise; every other caption keeps its end.
C17_BoundaryExtension ==
    last.ev = "captions" =>
        \A i \in 1..Len(last.audio_segments) : \A j \in 1..Len(last.buckets[i]) :
            LET sub == last.buckets[i][j]
                orig == last.subs[sub.id]
                win_end == WindowEnd(last.audio_segments, i)
            IN sub.end = IF j = Len(last.buckets[i])
                            /\ Distance(win_end, orig.end) < Tolerance
                         THEN win_end ELSE orig.end

Orderings(n) == {p \in [1..n -> 1..n] : \A a, b \in 1..n : p[a] = p[b] => a = b}

BucketView(buckets) ==
    [i \in DOMAIN buckets |->
        {<<buckets[i][j].id, buckets[i][j].start, buckets[i][j].end>> :
            j \in 1..Len(buckets[i])}]

\* C18: for every permutation of the caption stream each bucket holds the same
\* captions with the same final end times.
C18_OrderIndependent ==
    last.ev = "captions" =>
        \A p \in Orderings(Len(last.subs)) :
            BucketView(_distribute_captions([k \in 1..Len(last.subs) |-> last.subs[p[k]]],
                                            last.audio_segments))
               = BucketView(last.buckets)

FailedScenes == Cardinality({i \in 1..last.n : ~last.results[i].returned})

\* the scene ids of a collection of assets, in its order
SceneIds(assets) == [k \in 1..Len(assets) |-> assets[k].scene_id]

\* every call after the gather returned and every file of a returned scene
\* has content
CleanRun ==
    /\ last.tail.concatenate = "ok" /\ last.tail.hook_prompt = "ok"
    /\ \A i \in 1..last.n :
          last.results[i].returned =>
             /\ file_check(last.results[i].audio_file)
             /\ file_check(last.results[i].image_file)

\* C19: with n scenes of which k fail, 0 < k < n, the assets of the n - k
\* successful scenes are kept in script order, and the assessment's score is
\* the fraction (n - k) / n of per-scene checks that succeeded, the stage being
\* retried exactly when that fraction is below the threshold and budget
\* remains.
C19_PartialFailureScore ==
    (last.ev = "media" /\ 0 < FailedScenes /\ FailedScenes < last.n /\ CleanRun)
        => /\ SceneIds(last.media_assets.audio_segments)
                 = collect_results(last.n, last.results)
           /\ SceneIds(last.media_assets.images)
                 = collect_results(last.n, last.results)
           /\ last.media_assets.quality.passed_checks * last.n
                 = last.media_assets.quality.total_checks * (last.n - FailedScenes)
           /\ last.retry <=> (10 * (last.n - FailedScenes) < QualityThreshold * last.n)

C22_CountersNeverDecrease ==
    [][\A st \in Stages : ckpt'.retry_counts[st] >= ckpt.retry_counts[st]]_vars

\* C23: one execution of a stage adds exactly one to the stage's own counter,
\* whatever the attempt's outcome, leaves the other stages' counters as they
\* were, and the router decides on the incremented value: the stage is chosen
\* again exactly when the attempt failed and the new count is below
\* max_retries.
C23_OneIncrementPerAttempt ==
    last.ev = "applied" =>
        /\ ckpt.retry_counts[last.node] = last.pre.retry_counts[last.node] + 1
        /\ \A st \in Stages \ {last.node} :
              ckpt.retry_counts[st] = last.pre.retry_counts[st]
        /\ last.result = last.node
              <=> (~ckpt.quality.passed
                   /\ last.pre.retry_counts[last.node] + 1 < MaxRetries)

C23_Witness ==
    /\ last.ev = "applied" /\ last.node = "trend_researcher" /\ ~last.o.raises
    /\ last.pre.retry_counts["trend_researcher"] = 1
    /\ last.pre.retry_counts["scriptwriter"] = 2
    /\ ckpt.retry_counts["trend_researcher"] = 2
    /\ ckpt.retry_counts["scriptwriter"] = 2

\* C24 as stated: whenever a collaborator call throws inside a stage, handled
\* before the stage's boundary or not, the stage returns a failing assessment
\* with score 0.
C24_Original ==
    (last.ev = "applied" /\ (last.o.raises \/ last.handled)) =>
        /\ ckpt.quality.present
        /\ ckpt.quality.node_name = last.node
        /\ ~ckpt.quality.passed
        /\ ckpt.quality.score = 0

\* C24 amended: a collaborator's exception that reaches the stage's boundary
\* does not leave the stage: the assessment names the stage, has passed =
\* false and score 0, the attempt is counted, and the router retries the
\* stage while budget remains.  After an exception that is handled before the
\* boundary the stage still returns an assessment that names it and counts
\* the attempt, with the score of what it went on to produce.
C24_CrashBecomesFailedAssessment ==
    last.ev = "applied" =>
        /\ ckpt.quality.present
        /\ ckpt.quality.node_name = last.node
        /\ ckpt.quality.attempt = last.pre.retry_counts[last.node] + 1
        /\ ckpt.retry_counts[last.node] = last.pre.retry_counts[last.node] + 1
        /\ last.o.raises =>
              /\ ~ckpt.quality.passed
              /\ ckpt.quality.score = 0
              /\ last.result = IF ckpt.retry_counts[last.node] < MaxRetries
                               THEN last.node ELSE FailureSuccessor(last.node)
        /\ (ckpt.quality.passed \/ ckpt.quality.score # 0) =>
              (~last.o.raises /\ ckpt.quality.score = last.o.score)

C24_Witness ==
    /\ last.ev = "applied" /\ last.node = "media_producer" /\ last.o.raises
    /\ last.pre.script_data = "ok"
    /\ last.pre.retry_counts["media_producer"] = 0
    /\ ckpt.quality.node_name = "media_producer" /\ ckpt.quality.score = 0
    /\ last.result = "media_producer"

\* C25: every value a router returns for a node is a declared destination of
\* that node in the compiled graph.
C25_RoutesDeclared ==
    last.ev \in {"stage", "gate"} => last.result \in path_map(last.node)

RequiredGates(stage) ==
    CASE stage = "trend_researcher" -> {}
      [] stage = "scriptwriter" -> {"topic_selection_gate", "speaker_selection_gate"}
      [] stage = "media_producer" ->
            {"topic_selection_gate", "speaker_selection_gate", "human_review_gate",
             "audio_choice_gate"}
      [] stage = "auto_editor" -> Gates

\* C26: a stage executes only after the gates before it on the fixed graph
\* have been resumed: draft after the topic and speaker gates, media after an
\* approval at the review gate and the audio-choice gate, assemble after the
\* hook gate.
C26_StagesFollowGates ==
    last.ev = "stage" => RequiredGates(last.node) \subseteq last.gates_done

C26_Witness ==
    /\ last.ev = "stage" /\ last.node = "auto_editor"
    /\ last.gates_done = Gates

(***************************************************************************)
(* Stage executions counted, with the run's consecutive failing            *)
(* assessments per stage.  SpecCounted is the run before any resume        *)
(* call: the start task's dispatch cycle and the stream endpoint's.        *)
(* SpecCountedSequential is the run of the well-behaved client, resumed at *)
(* every suspension, without the stream endpoint.                          *)
(***************************************************************************)
CountedStageStep(c) ==
    /\ StageStep(c)
    /\ executed' = [executed EXCEPT ![cyc[c].loc.next] =
                       IF @ > MaxRetries THEN @ ELSE @ + 1]
    /\ fails' = Fails(cyc[c].loc.next, last'.q = "passed")

CountedGateResume(c) ==
    /\ GateResume(c)
    /\ executed' = IF cyc[c].loc.next = "human_review_gate"
                   THEN [executed EXCEPT !["scriptwriter"] = 0]
                   ELSE executed

NextCounted ==
    \/ \E c \in Cycles : _run_pipeline(c)
    \/ \E c \in Cycles : CycleLoad(c)
    \/ \E c \in Cycles : CycleEnd(c)
    \/ \E c \in Cycles : CountedStageStep(c)
    \/ \E c \in Cycles : GateInterrupt(c)
    \/ stream_pipeline_status

SpecCounted == Init /\ [][NextCounted]_vars

NextCountedSequential ==
    \/ \E c \in Cycles : _run_pipeline(c)
    \/ \E c \in Cycles : CycleLoad(c)
    \/ \E c \in Cycles : CountedStageStep(c)
    \/ \E c \in Cycles : CountedGateResume(c)
    \/ \E c \in Cycles : GateInterrupt(c)
    \/ ResumePending

SpecCountedSequential == InitSequential /\ [][NextCountedSequential]_vars

\* C27: research, media and assemble each execute at most max_retries times
\* in a run, and draft executes at most max_retries times in a row without
\* an intervening suspension at the review gate
C27_BoundedExecutions ==
    \A s \in Stages : executed[s] <= MaxRetries

\* C28: the composer returns one bucket per audio segment, in segment order,
\* an empty one for a scene without a caption; window 1 starts at 0, each
\* window starts where the previous one ends and lasts its segment's
\* duration (its end is the float sum, less than a millisecond from the sum
\* of the durations in milliseconds), so no two windows overlap, and no
\* caption is in two buckets.
C28_BucketPerScene ==
    last.ev = "captions" =>
        LET windows == scene_windows(last.audio_segments)
            n == Len(last.audio_segments)
        IN /\ Len(last.buckets) = n
           /\ Len(windows) = n
           /\ \A i \in 1..n :
                 /\ windows[i][1] = IF i = 1 THEN FromInt(0) ELSE windows[i - 1][2]
                 /\ windows[i][2] = fadd(windows[i][1], duration(last.audio_segments[i]))
                 /\ Less(MulSmall(windows[i][2], 1000),
                         FromInt(WindowEnd(last.audio_segments, i) + 1))
                 /\ Less(FromInt(WindowEnd(last.audio_segments, i) - 1),
                         MulSmall(windows[i][2], 1000))
                 /\ \A j \in 1..Len(last.buckets[i]) :
                       LET mid == sub_mid(last.subs[last.buckets[i][j].id])
                       IN ~Less(mid, windows[i][1]) /\ Less(mid, windows[i][2])
           /\ \A i, j \in 1..n : i < j => ~Less(windows[j][1], windows[i][2])
           /\ \A k \in 1..Len(last.subs) :
                 Cardinality({i \in 1..n : Occurrences(last.buckets, i, k) > 0}) <= 1

C28_Witness ==
    /\ last.ev = "captions"
    /\ last.audio_segments = <<3000, 4000, 2000>>
    /\ Len(last.subs) = 2
    /\ Len(last.buckets) = 3
    /\ Len(last.buckets[1]) = 1
    /\ last.buckets[2] = <<>>
    /\ Len(last.buckets[3]) = 1

(***************************************************************************)
(* nodes/media_producer.py: one execution of the media stage in TTS mode   *)
(* as concurrent tasks.  The outer gather starts one task per scene; each  *)
(* scene task gathers a speech call, made under _tts_semaphore, and, for a *)
(* scene without a ready-made picture, an image call.  The inner gather    *)
(* raises as soon as one of its calls raises and leaves the other call     *)
(* running; the outer gather (return_exceptions=True) returns when every   *)
(* scene task has returned or raised.  Then the narration is concatenated  *)
(* and, in the assemble stage, the captions are distributed.  The scene    *)
(* tasks differ only in whether the scene has a ready-made picture, so the *)
(* state holds the bag of the scene tasks' positions: how many scene tasks *)
(* are at each position, not which.                                        *)
(***************************************************************************)
\* asyncio.Semaphore(2)
TtsPoolSize == 2
\* most scenes of a script in the fan-out
MaxFanout == 5

\* how many scene tasks are at one of the positions S
SceneCount(S) ==
    BagCardinality([x \in S \cap BagToSet(last.scenes) |-> last.scenes[x]])

TtsInFlight ==
    SceneCount({x \in BagToSet(last.scenes) : x.tts = "in_flight"})
ImagesInFlight ==
    SceneCount({x \in BagToSet(last.scenes) : x.img = "in_flight"})
ScenesJoined ==
    SceneCount({x \in BagToSet(last.scenes) : x.scene \in {"new", "running"}}) = 0

\* a scene task not yet started
NewScene(picture) ==
    [picture |-> picture, scene |-> "new", tts |-> "none", img |-> "none",
     clip |-> "none"]

\* one scene task moves from position x to position y
SceneStep(x, y) ==
    last' = [last EXCEPT !.scenes = (@ (-) SetToBag({x})) (+) SetToBag({y})]

InitFanout ==
    /\ ckpt = initial_state
    /\ cyc = [c \in Cycles |-> IdleCycle]
    /\ accepted = 0
    /\ extras = 0
    /\ executed = [s \in Stages |-> 0]
    /\ fails = [s \in Stages |-> 0]
    /\ \E n \in MinScenes..MaxFanout : \E generated \in 0..n :
          LET count == [x \in {NewScene("generated"), NewScene("copied")} |->
                           IF x.picture = "generated" THEN generated
                           ELSE n - generated]
          IN last = [ev |-> "fanout", n |-> n,
                     scenes |-> [x \in {y \in DOMAIN count : count[y] > 0} |-> count[x]],
                     narration |-> "none", concat_pending |-> 0,
                     composed |-> FALSE]

\* _generate_scene_assets up to its gather: a ready-made picture is copied
\* with shutil.copy2, which may raise before any call is made; otherwise the
\* scene's calls become tasks
StartScene ==
    /\ \E x \in BagToSet(last.scenes) : \E copy \in {"ok", "raises"} :
          /\ x.scene = "new"
          /\ x.picture = "generated" => copy = "ok"
          /\ SceneStep(x, [x EXCEPT
                             !.scene = "running",
                             !.tts = IF copy = "ok" THEN "waiting" ELSE "none",
                             !.img = IF x.picture = "generated" THEN "queued"
                                     ELSE IF copy = "ok" THEN "copied"
                                     ELSE "copy_failed"])
    /\ UNCHANGED <<ckpt, cyc, accepted, extras, executed, fails>>

\* _tts_with_limit: async with _tts_semaphore
AcquireTts ==
    /\ TtsInFlight < TtsPoolSize
    /\ \E x \in BagToSet(last.scenes) :
          /\ x.tts = "waiting"
          /\ SceneStep(x, [x EXCEPT !.tts = "in_flight"])
    /\ UNCHANGED <<ckpt, cyc, accepted, extras, executed, fails>>

\* elevenlabs_tts returns or raises; the semaphore is released
FinishTts ==
    /\ \E x \in BagToSet(last.scenes) : \E r \in {"done", "failed"} :
          /\ x.tts = "in_flight"
          /\ SceneStep(x, [x EXCEPT !.tts = r])
    /\ UNCHANGED <<ckpt, cyc, accepted, extras, executed, fails>>

\* _generate_image: awaited under no semaphore
CallImage ==
    /\ \E x \in BagToSet(last.scenes) :
          /\ x.img = "queued"
          /\ SceneStep(x, [x EXCEPT !.img = "in_flight"])
    /\ UNCHANGED <<ckpt, cyc, accepted, extras, executed, fails>>

FinishImage ==
    /\ \E x \in BagToSet(last.scenes) : \E r \in {"done", "failed"} :
          /\ x.img = "in_flight"
          /\ SceneStep(x, [x EXCEPT !.img = r])
    /\ UNCHANGED <<ckpt, cyc, accepted, extras, executed, fails>>

\* the scene's gather has returned both results: AudioFileClip(audio_result)
\* reads the audio file for its duration, or raises
MeasureAudio ==
    /\ \E x \in BagToSet(last.scenes) : \E r \in {"read", "raises"} :
          /\ x.scene = "running" /\ x.clip = "none"
          /\ x.tts = "done" /\ x.img \in {"done", "copied"}
          /\ SceneStep(x, [x EXCEPT !.clip = r])
    /\ UNCHANGED <<ckpt, cyc, accepted, extras, executed, fails>>

\* the scene task returns its assets
SceneReturn ==
    /\ \E x \in BagToSet(last.scenes) :
          /\ x.scene = "running" /\ x.clip = "read"
          /\ SceneStep(x, [x EXCEPT !.scene = "returned"])
    /\ UNCHANGED <<ckpt, cyc, accepted, extras, executed, fails>>

\* the scene task raises: the copy of the picture raised, or one call raised
\* (the scene's gather raises and the other call keeps running), or
\* AudioFileClip raised
SceneRaise ==
    /\ \E x \in BagToSet(last.scenes) :
          /\ x.scene = "running"
          /\ \/ x.img = "copy_failed"
             \/ x.tts = "failed"
             \/ x.img = "failed"
             \/ x.clip = "raises"
          /\ SceneStep(x, [x EXCEPT !.scene = "raised"])
    /\ UNCHANGED <<ckpt, cyc, accepted, extras, executed, fails>>

\* after the outer gather: RuntimeError when no scene returned, otherwise
\* _concatenate_audio over the returned scenes' audio, which writes the
\* narration or raises; concat_pending is the number of speech calls that
\* have neither returned nor raised by then
ConcatenateAudio ==
    /\ last.narration = "none"
    /\ ScenesJoined
    /\ \E r \in {"written", "raises"} :
          last' = [last EXCEPT
                     !.narration =
                        IF r = "written"
                           /\ SceneCount({x \in BagToSet(last.scenes) :
                                             x.scene = "returned"}) > 0
                        THEN "produced" ELSE "failed",
                     !.concat_pending =
                        SceneCount({x \in BagToSet(last.scenes) :
                                      x.tts \in {"waiting", "in_flight"}})]
    /\ UNCHANGED <<ckpt, cyc, accepted, extras, executed, fails>>

\* auto_editor: raises without the narration, otherwise transcribes it and
\* calls _distribute_captions
ComposeTimeline ==
    /\ last.narration = "produced"
    /\ ~last.composed
    /\ last' = [last EXCEPT !.composed = TRUE]
    /\ UNCHANGED <<ckpt, cyc, accepted, extras, executed, fails>>

NextFanout ==
    \/ StartScene
    \/ AcquireTts
    \/ FinishTts
    \/ CallImage
    \/ FinishImage
    \/ MeasureAudio
    \/ SceneReturn
    \/ SceneRaise
    \/ ConcatenateAudio
    \/ ComposeTimeline

SpecFanout == InitFanout /\ [][NextFanout]_vars

\* C29: the speech calls in flight never exceed the TTS pool (2), and the
\* image calls in flight are bounded by a pool of their own whatever the
\* number of scenes: with more scenes than a pool holds they are never all
\* in flight at once
C29_BoundedPools ==
    last.ev = "fanout" =>
        /\ TtsInFlight <= TtsPoolSize
        /\ ImagesInFlight < MaxFanout

\* C30: the narration is produced only when every scene's speech call has
\* returned or raised, and the captions are distributed only after the
\* narration has been produced
C30_JoinBeforeNarration ==
    last.ev = "fanout" =>
        /\ last.narration = "produced" => last.concat_pending = 0
        /\ last.composed => last.narration = "produced"

(***************************************************************************)
(* The gate nodes as functions of the state they are resumed in: every     *)
(* gate, resumed with every payload a resume endpoint can deliver, in      *)
(* states with and without an assessment, an error and the stage outputs.  *)
(***************************************************************************)
ResumePayloads == ReviewPayloads \cup AudioPayloads \cup {NoPayload}

InitGates ==
    /\ ckpt \in {[initial_state EXCEPT !.next = g, !.quality = q, !.error = er,
                                        !.trend_data = td, !.script_data = sd,
                                        !.media_assets = sd,
                                        !.retry_counts = [@ EXCEPT !["scriptwriter"] = rc]] :
                    g \in Gates, q \in QualityInputs,
                    er \in {"none", "pipeline run failed"},
                    td \in {"none", "ok"}, sd \in {"none", "ok"},
                    rc \in 0..MaxRetries}
    /\ cyc = [c \in Cycles |-> IdleCycle]
    /\ accepted = 0
    /\ extras = 0
    /\ executed = [s \in Stages |-> 0]
    /\ fails = [s \in Stages |-> 0]
    /\ last = [ev |-> "none"]

ApplyGate ==
    /\ last.ev = "none"
    /\ \E payload \in ResumePayloads :
          /\ ckpt' = run_gate(ckpt.next, ckpt, payload)
          /\ last' = [ev |-> "resumed", node |-> ckpt.next, payload |-> payload,
                      pre |-> ckpt]
    /\ UNCHANGED <<cyc, accepted, extras, executed, fails>>

NextGates == ApplyGate

SpecGates == InitGates /\ [][NextGates]_vars

\* the state fields a gate returns
GateFields(gate) ==
    CASE gate = "topic_selection_gate" ->
            {"trend_data", "topic_selected", "topic_selection_approved"}
      [] gate = "speaker_selection_gate" -> {"speaker_selection_approved"}
      [] gate = "human_review_gate" -> {"human_approved", "human_feedback"}
      [] gate = "audio_choice_gate" ->
            {"audio_source", "audio_choice_approved", "audio_files"}
      [] gate = "hook_prompt_gate" -> {"hook_prompt_approved"}

\* C31: a gate resumed with a payload writes its own decision fields only;
\* quality, retry_counts, error, the stage outputs and the other gates'
\* fields are as before, and of trend_data the topic gate adds the selected
\* topic and keeps what research produced.
C31_GateWritesOwnFields ==
    last.ev = "resumed" =>
        /\ \A f \in DOMAIN ckpt \ GateFields(last.node) : ckpt[f] = last.pre[f]
        /\ ckpt.trend_data = "ok" <=> last.pre.trend_data = "ok"
        /\ ckpt.quality = last.pre.quality
        /\ ckpt.retry_counts = last.pre.retry_counts
        /\ ckpt.error = last.pre.error

C31_Witness ==
    /\ last.ev = "resumed" /\ last.node = "audio_choice_gate"
    /\ last.payload.audio_source = "manual" /\ last.payload.audio_files = "files"
    /\ last.pre.quality.present /\ last.pre.quality.passed
    /\ last.pre.retry_counts["scriptwriter"] = 2
    /\ last.pre.error # "none"
    /\ ckpt.audio_source = "manual" /\ ckpt.audio_files = "files"
    /\ ckpt.audio_choice_approved = "true"
    /\ ckpt.quality = last.pre.quality

\* C32: whenever an assessment is set, its attempt is the counter of the
\* stage it names, after a stage has executed the assessment names that
\* stage, and a step that executes no stage leaves the assessment as it is.
C32_AssessmentOfLatestStage ==
    /\ [](/\ ckpt.quality.present =>
                ckpt.quality.attempt = ckpt.retry_counts[ckpt.quality.node_name]
          /\ last.ev = "stage" =>
                ckpt.quality.present /\ ckpt.quality.node_name = last.node)
    /\ [][last'.ev # "stage" => ckpt'.quality = ckpt.quality]_vars

\* C33: once the status operation reports completed or failed, it reports the
\* same from then on, no stage executes and no resume call is accepted.
C33_TerminalAbsorbing ==
    [][get_pipeline_status(aget_state(ckpt)) \in {"completed", "failed"} =>
         /\ get_pipeline_status(aget_state(ckpt')) = get_pipeline_status(aget_state(ckpt))
         /\ last'.ev # "stage"
         /\ ~(last'.ev = "submit" /\ last'.result \in AcceptedStatuses)]_vars

(***************************************************************************)
(* The draft and review loop under the retry budget the settings are       *)
(* loaded with (config.py reads max_retries from the environment, 2 by     *)
(* default): the run from the resumed speaker gate until the review gate   *)
(* approves or the router ends the run.  `last` carries the budget, the    *)
(* feedback of a rejection since which the run has not suspended at the    *)
(* review gate again (owed), and what the latest draft attempt read.       *)
(***************************************************************************)
BudgetSettings == {MaxRetries, MaxRetries + 1}

\* _should_retry with settings.max_retries given
should_retry_with(state, node_name, max_retries) ==
    IF (~state.quality.present) \/ state.quality.passed
    THEN FALSE
    ELSE state.retry_counts[node_name] < max_retries

route_after_script_with(state, max_retries) ==
    IF (~state.quality.present) \/ state.quality.passed
    THEN "human_review_gate"
    ELSE IF should_retry_with(state, "scriptwriter", max_retries)
         THEN "scriptwriter"
         ELSE END

\* the checkpoint after research has passed on attempt n (its earlier
\* attempts failed, within the budget) and the topic and speaker gates have
\* been resumed
InitRevision ==
    /\ \E max_retries \in BudgetSettings : \E n \in 1..max_retries :
          /\ ckpt = speaker_selection_gate(
                       topic_selection_gate(
                          [initial_state EXCEPT
                             !.next = "scriptwriter",
                             !.trend_data = "ok",
                             !.quality = Assessment("trend_researcher",
                                            [raises |-> FALSE,
                                             score |-> QualityThreshold], n),
                             !.retry_counts = [@ EXCEPT !["trend_researcher"] = n]],
                          NoPayload),
                       NoPayload)
          /\ last = [ev |-> "none", max_retries |-> max_retries, owed |-> "none",
                     was_owed |-> "none", fb_seen |-> "none", result |-> "none"]
    /\ cyc = [c \in Cycles |-> IdleCycle]
    /\ accepted = 0
    /\ extras = 0
    /\ executed = [s \in Stages |-> 0]
    /\ fails = [s \in Stages |-> 0]

DraftAttempt ==
    /\ ckpt.next = "scriptwriter"
    /\ ckpt.retry_counts["scriptwriter"] < MaxDrafts
    /\ \E o \in Outcomes :
          LET s1 == scriptwriter(ckpt, o)
              dest == route_after_script_with(s1, last.max_retries)
          IN /\ ckpt' = [s1 EXCEPT !.next = dest]
             /\ last' = [last EXCEPT
                           !.ev = "draft",
                           !.was_owed = last.owed,
                           !.fb_seen = ckpt.human_feedback,
                           !.result = dest,
                           !.owed = IF dest = "human_review_gate" THEN "none" ELSE @]
             /\ fails' = Fails("scriptwriter", s1.quality.passed)
    /\ UNCHANGED <<cyc, accepted, extras, executed>>

ReviewDecision ==
    /\ ckpt.next = "human_review_gate"
    /\ \E payload \in ReviewPayloads :
          LET s1 == human_review_gate(ckpt, payload)
              dest == route_after_review(s1)
          IN /\ ckpt' = [s1 EXCEPT !.next = dest]
             /\ last' = [last EXCEPT
                           !.ev = "review",
                           !.was_owed = "none",
                           !.fb_seen = "none",
                           !.result = dest,
                           !.owed = IF dest = "scriptwriter" THEN payload.feedback
                                    ELSE "none"]
    /\ UNCHANGED <<cyc, accepted, extras, executed, fails>>

NextRevision == DraftAttempt \/ ReviewDecision

SpecRevision == InitRevision /\ [][NextRevision]_vars

\* C34: a draft attempt made after a rejection with feedback f and before the
\* run suspends at the review gate again reads human_feedback = f, the
\* retry of a failed revision attempt included.
C34_FeedbackCarried ==
    (last.ev = "draft" /\ last.was_owed # "none") => last.fb_seen = last.was_owed

\* C35: when the router ends the run at draft, the attempt that just failed
\* is the max_retries-th failing attempt in a row, whether the draft was
\* entered from the speaker gate or from a rejection at the review gate.
C35_SameBudgetAfterRejection ==
    (last.ev = "draft" /\ last.result = END) =>
        fails["scriptwriter"] = last.max_retries

\* C36: when the media assessment passes (the run goes on to the hook gate),
\* the assets hold an audio segment and an image for every scene of the
\* script.
C36_PassedMediaIsComplete ==
    (last.ev = "media" /\ last.media_assets.quality.passed) =>
        /\ ~last.media_assets.raised
        /\ SceneIds(last.media_assets.audio_segments) = [i \in 1..last.n |-> i]
        /\ SceneIds(last.media_assets.images) = [i \in 1..last.n |-> i]

\* C37: no caption leaves the composer with an end earlier than the end it
\* came with; a bucket's last caption that ends after its window's end keeps
\* its end.
C37_EndNeverEarlier ==
    last.ev = "captions" =>
        \A i \in 1..Len(last.audio_segments) : \A j \in 1..Len(last.buckets[i]) :
            last.buckets[i][j].end >= last.subs[last.buckets[i][j].id].end

\* C38: a caption whose midpoint lies in [0, total narration duration) is in
\* exactly one bucket, once; a caption whose midpoint is at or past the total
\* duration is in no bucket.
C38_CaptionConservation ==
    last.ev = "captions" =>
        LET n == Len(last.audio_segments)
            total == RunningSum(last.audio_segments, n)
        IN \A k \in 1..Len(last.subs) :
              LET mid2 == last.subs[k].start + last.subs[k].end
                  holders == {i \in 1..n : Occurrences(last.buckets, i, k) > 0}
              IN IF mid2 < 2 * total
                 THEN /\ Cardinality(holders) = 1
                      /\ \A i \in holders : Occurrences(last.buckets, i, k) = 1
                 ELSE holders = {}

\* C39: while the checkpoint holds the reviewer's approval, no step changes
\* script_data and the scriptwriter does not execute.
C39_ApprovedScriptFrozen ==
    [][ckpt.human_approved = "true" =>
          /\ ckpt'.script_data = ckpt.script_data
          /\ ~(last'.ev = "stage" /\ last'.node = "scriptwriter")]_vars

\* C40: a call of the stream endpoint is an observation: no stage executes
\* in the invocation it makes, and no step of that invocation changes the
\* persisted checkpoint.
C40_StreamReadOnly ==
    [][/\ ~(last'.ev = "stage" /\ last'.kind = "stream")
       /\ (last'.kind = "stream" => ckpt' = ckpt)]_vars

====
